---- MODULE Spec2Model ----
(***************************************************************************)
(* Model of dxf_tiled_pdf.py: a DXF drawing is bounded, split into         *)
(* overlapping page-sized tiles, and every entity is re-drawn on every     *)
(* tile's page through that tile's world->page transform.                  *)
(*                                                                         *)
(* Numbers.  The program computes in floats; the model computes in exact   *)
(* fixed point.  Page lengths are integers in a page unit PU chosen so     *)
(* that the point, the millimetre and the inch are all whole numbers of    *)
(* PU (1 pt = 80645 PU).  World lengths are integers in a world unit WFU,  *)
(* 1270 WFU per DXF drawing unit, so that every division the program makes *)
(* on the inputs enumerated here is exact.  A scale (scale_wu_to_pt) is    *)
(* held in PU per WFU.                                                     *)
(***************************************************************************)
EXTENDS Integers, Sequences, FiniteSets, TLC

VARIABLES
    args,       \* the parsed command line (argparse namespace)
    doc,        \* the drawing as read: modelspace, layer table, linetype table
    pc,         \* position of main / of the function under call
    ents_list,  \* main's ents_list
    bbox,       \* main's bbox (Optional 4-tuple)
    plan,       \* main's (tiles, nx, ny)
    ti,         \* index into tiles of the tile whose page is being drawn
    ei,         \* index into ents_list of the next entity to draw on this page
    c,          \* the canvas: saved-state stack, graphics state, calls on the open page
    pages,      \* the pages closed by showPage, each the sequence of its calls
    err,        \* the exception that ended the run, "" when none
    call,       \* function-level runs: the arguments of the call
    ret         \* function-level runs: what the call returned

vars == <<args, doc, pc, ents_list, bbox, plan, ti, ei, c, pages, err, call, ret>>

----------------------------------------------------------------------------
(* Units (reportlab.lib.units) in PU, and the world fixed-point unit.      *)

mm == 228600

inch == 5806440

pt == inch \div 72

WUnit == 127 * 10

\* Optional[...] values: None, or Some(v).
None(dflt) == [some |-> FALSE, v |-> dflt]

Some(x) == [some |-> TRUE, v |-> x]

Min2(a, b) == IF a <= b THEN a ELSE b

Max2(a, b) == IF a >= b THEN a ELSE b

RECURSIVE MinOf(_)
MinOf(s) == IF Len(s) = 1 THEN s[1] ELSE Min2(s[1], MinOf(Tail(s)))

RECURSIVE MaxOf(_)
MaxOf(s) == IF Len(s) = 1 THEN s[1] ELSE Max2(s[1], MaxOf(Tail(s)))

\* math.ceil(a / b) for b > 0.
CeilDiv(a, b) == -((-a) \div b)

----------------------------------------------------------------------------
(* Linetype names.  str.strip().upper() on the names that occur.           *)

StripUpper(name) ==
    CASE name = "Continuous" -> "CONTINUOUS"
      [] name = "cont"       -> "CONT"
      [] name = " Cont "     -> "CONT"
      [] name = "ByLayer"    -> "BYLAYER"
      [] name = "ByBlock"    -> "BYBLOCK"
      [] name = "dashed"     -> "DASHED"
      [] name = "dot"        -> "DOT"
      [] OTHER               -> name

\* A None name and the empty name are both falsy; both are held as "".
_linetype_name_is_continuous(name) ==
    IF name = "" THEN TRUE
    ELSE StripUpper(name) \in {"CONTINUOUS", "CONT"}

\* doc.linetypes.get(name), then the case-insensitive scan; KeyError is None.
_get_linetype_case_insensitive(d, name) ==
    IF name \in DOMAIN d.linetypes THEN Some(d.linetypes[name])
    ELSE LET hits == {n \in DOMAIN d.linetypes : StripUpper(n) = StripUpper(name)}
         IN  IF hits # {} THEN Some(d.linetypes[CHOOSE n \in hits : TRUE])
             ELSE None(<<>>)

\* _effective_linetype_name without the "BYBLOCK" branch: the name is
\* returned as it stands.
_effective_linetype_name_no_byblock(d, e) ==
    LET lt   == IF e.linetype = "" THEN "BYLAYER" ELSE e.linetype
        lt_u == StripUpper(lt)
    IN  IF lt_u = "BYLAYER"
        THEN IF e.layer \in DOMAIN d.layers
             THEN IF d.layers[e.layer] = "" THEN "CONTINUOUS" ELSE d.layers[e.layer]
             ELSE "CONTINUOUS"
        ELSE lt

\* e.dxf.linetype missing or empty reads as "BYLAYER"; a layer missing from
\* the layer table makes doc.layers.get raise, which reads as "CONTINUOUS".
_effective_linetype_name(d, e) ==
    LET lt   == IF e.linetype = "" THEN "BYLAYER" ELSE e.linetype
        lt_u == StripUpper(lt)
    IN  IF lt_u = "BYLAYER"
        THEN IF e.layer \in DOMAIN d.layers
             THEN IF d.layers[e.layer] = "" THEN "CONTINUOUS" ELSE d.layers[e.layer]
             ELSE "CONTINUOUS"
        ELSE IF lt_u = "BYBLOCK" THEN "CONTINUOUS"
        ELSE lt

DashScaleNum == 3

DashScaleDen == 10

\* 0.2 * mm
MinDashPt == (2 * mm) \div 10

\* SegPt with "if seg_pt < 0": a zero segment stays zero.
SegPt_strict(seg, scale) ==
    LET seg_pt == (seg * scale * DashScaleNum) \div DashScaleDen
    IN  IF seg_pt < 0 THEN MinDashPt ELSE seg_pt

\* seg_pt for one segment: float(seg) * float(scale) * 0.3, floored at 0.2 mm.
SegPt(seg, scale) ==
    LET seg_pt == (seg * scale * DashScaleNum) \div DashScaleDen
    IN  IF seg_pt <= 0 THEN MinDashPt ELSE seg_pt

\* None is the solid stroke.
_reportlab_dash_array_for_linetype(d, linetype_name, scale) ==
    IF _linetype_name_is_continuous(linetype_name) THEN None(<<>>)
    ELSE LET lt == _get_linetype_case_insensitive(d, linetype_name)
         IN  IF ~lt.some THEN None(<<>>)
             ELSE IF lt.v = <<>> THEN None(<<>>)
             ELSE LET pattern_pt == [n \in 1..Len(lt.v) |-> SegPt(lt.v[n], scale)]
                  IN  IF Len(pattern_pt) % 2 = 1
                      THEN Some(pattern_pt \o pattern_pt)
                      ELSE Some(pattern_pt)

----------------------------------------------------------------------------
(* Entities.  An entity is a record                                        *)
(*   kind        e.dxftype()                                               *)
(*   pts         LINE: <<start, end>>; LWPOLYLINE, POLYLINE: the vertices; *)
(*               CIRCLE, ARC: <<center>>; POINT: <<location>>;             *)
(*               SPLINE, ELLIPSE: the points make_path(e).flattening gives *)
(*   r, a0, a1   radius, start and end angle                               *)
(*   closed      e.closed / e.is_closed                                    *)
(*   layer, linetype   e.dxf.layer, e.dxf.linetype ("" when absent)        *)
(*   raises      reading the entity's geometry from the reader raises, as  *)
(*               e.vertices() does where the reader holds a POLYLINE's     *)
(*               vertices in a list attribute (for SPLINE, ELLIPSE:        *)
(*               make_path(e) raises)                                      *)
(* A point is <<x, y>> in WFU.                                             *)

\* WorldToPage.w2p
w2p(xform, x_wu, y_wu) ==
    << xform.page_x0_pt + (x_wu - xform.world_x0) * xform.scale_wu_to_pt,
       xform.page_y0_pt + (y_wu - xform.world_y0) * xform.scale_wu_to_pt >>

\* spline_flatten_mm = 0.5, in tenths of a millimetre
FlattenMmTenths == 5

\* scale None and scale 0 are both falsy; both are held as 0.
_flatten_path_entity_points(e, scale, flatten_tenths) ==
    IF scale = 0 THEN <<>>
    ELSE LET flatten_dist_wu == ((flatten_tenths * mm) \div 10) \div scale
         IN  IF flatten_dist_wu <= 0 THEN <<>>
             ELSE IF e.raises THEN <<>>
             ELSE e.pts

Xs(pts) == [n \in 1..Len(pts) |-> pts[n][1]]

Ys(pts) == [n \in 1..Len(pts) |-> pts[n][2]]

NoBox == None(<<0, 0, 0, 0>>)

BoxOfPoints(pts) == Some(<<MinOf(Xs(pts)), MinOf(Ys(pts)), MaxOf(Xs(pts)), MaxOf(Ys(pts))>>)

PathKinds == {"SPLINE", "ELLIPSE"}

SupportedKinds == {"LINE", "LWPOLYLINE", "POLYLINE", "CIRCLE", "ARC", "POINT"} \cup PathKinds

\* None: the unsupported kind, the polyline without vertices (min() of an
\* empty list raises inside the try), the curve that flattens to nothing,
\* and any exception while reading the entity.
entity_bbox_wu(e, scale, flatten_tenths) ==
    CASE e.kind \in {"LINE", "LWPOLYLINE", "POLYLINE"} ->
            IF e.raises \/ e.pts = <<>> THEN NoBox ELSE BoxOfPoints(e.pts)
      [] e.kind \in {"CIRCLE", "ARC"} ->
            IF e.raises THEN NoBox
            ELSE Some(<<e.pts[1][1] - e.r, e.pts[1][2] - e.r,
                        e.pts[1][1] + e.r, e.pts[1][2] + e.r>>)
      [] e.kind = "POINT" ->
            IF e.raises THEN NoBox
            ELSE Some(<<e.pts[1][1], e.pts[1][2], e.pts[1][1], e.pts[1][2]>>)
      [] e.kind \in PathKinds ->
            LET pts == _flatten_path_entity_points(e, scale, flatten_tenths)
            IN  IF pts = <<>> THEN NoBox ELSE BoxOfPoints(pts)
      [] OTHER -> NoBox

IsSome(o) == o.some

\* drawing_bbox_wu without the "if bb is not None" filter: an entity without
\* a box counts as the empty box at the origin.
drawing_bbox_wu_unfiltered(ents, scale, flatten_tenths) ==
    LET bbs == [n \in 1..Len(ents) |-> entity_bbox_wu(ents[n], scale, flatten_tenths)]
    IN  IF bbs = <<>>
        THEN [ok |-> FALSE, v |-> <<0, 0, 0, 0>>, err |-> "no supported geometry"]
        ELSE [ok |-> TRUE,
              v  |-> << MinOf([n \in 1..Len(bbs) |-> bbs[n].v[1]]),
                        MinOf([n \in 1..Len(bbs) |-> bbs[n].v[2]]),
                        MaxOf([n \in 1..Len(bbs) |-> bbs[n].v[3]]),
                        MaxOf([n \in 1..Len(bbs) |-> bbs[n].v[4]]) >>,
              err |-> ""]

\* [ok, v, err]: the returned box, or the ValueError.
drawing_bbox_wu(ents, scale, flatten_tenths) ==
    LET all == [n \in 1..Len(ents) |-> entity_bbox_wu(ents[n], scale, flatten_tenths)]
        bbs == SelectSeq(all, IsSome)
    IN  IF bbs = <<>>
        THEN [ok |-> FALSE, v |-> <<0, 0, 0, 0>>, err |-> "no supported geometry"]
        ELSE [ok |-> TRUE,
              v  |-> << MinOf([n \in 1..Len(bbs) |-> bbs[n].v[1]]),
                        MinOf([n \in 1..Len(bbs) |-> bbs[n].v[2]]),
                        MaxOf([n \in 1..Len(bbs) |-> bbs[n].v[3]]),
                        MaxOf([n \in 1..Len(bbs) |-> bbs[n].v[4]]) >>,
              err |-> ""]

----------------------------------------------------------------------------
(* The page-drawing sink (reportlab canvas).  A canvas is a record         *)
(*   stack   the graphics states pushed by saveState                       *)
(*   gs      the current graphics state [dash, lineWidth, lineCap, font]   *)
(*   page    every call made on the open page, in order                    *)
(*   who     which part of main is calling (bookkeeping for the log)       *)
(* A logged call is [op, a, flag, text, gs, who]: a holds its numbers,     *)
(* flag its close/fill switch, text the string of a drawString, gs the     *)
(* graphics state it is painted with.                                      *)

NoDash == None(<<>>)

InitGs == [dash |-> NoDash, lineWidth |-> pt, lineCap |-> 0, font |-> <<"Helvetica", 12>>]

Furniture(part) == [part |-> part, n |-> 0]

NewCanvas == [stack |-> <<>>, gs |-> InitGs, page |-> <<>>, who |-> Furniture("main")]

NoText == [fmt |-> "", n |-> <<>>]

LogText(cv, op, a, flag, text) ==
    [cv EXCEPT !.page = Append(@, [op |-> op, a |-> a, flag |-> flag, text |-> text,
                                   gs |-> cv.gs, who |-> cv.who])]

Log(cv, op, a, flag) == LogText(cv, op, a, flag, NoText)

saveState(cv) == [Log(cv, "saveState", <<>>, FALSE) EXCEPT !.stack = Append(@, cv.gs)]

restoreState(cv) ==
    [Log(cv, "restoreState", <<>>, FALSE) EXCEPT
        !.gs = cv.stack[Len(cv.stack)],
        !.stack = SubSeq(cv.stack, 1, Len(cv.stack) - 1)]

setDash(cv, array) == Log([cv EXCEPT !.gs.dash = Some(array)], "setDash", array, FALSE)

setLineWidth(cv, w) == Log([cv EXCEPT !.gs.lineWidth = w], "setLineWidth", <<w>>, FALSE)

setLineCap(cv, mode) == Log([cv EXCEPT !.gs.lineCap = mode], "setLineCap", <<mode>>, FALSE)

setFont(cv, name, size) == Log([cv EXCEPT !.gs.font = <<name, size>>], "setFont", <<size>>, FALSE)

line(cv, x1, y1, x2, y2) == Log(cv, "line", <<x1, y1, x2, y2>>, FALSE)

circle(cv, x, y, r, fill) == Log(cv, "circle", <<x, y, r>>, fill)

arc(cv, x1, y1, x2, y2, startAng, extent) ==
    Log(cv, "arc", <<x1, y1, x2, y2, startAng, extent>>, FALSE)

\* beginPath, moveTo, lineTo..., [close], drawPath: one logged path.
drawPath(cv, pagePts, closed) == Log(cv, "drawPath", pagePts, closed)

drawString(cv, x, y, text) == LogText(cv, "drawString", <<x, y>>, FALSE, text)

ShapeOps == {"line", "drawPath", "circle", "arc"}

RECURSIVE PagePoints(_, _)
PagePoints(xform, pts) ==
    IF pts = <<>> THEN <<>>
    ELSE w2p(xform, pts[1][1], pts[1][2]) \o PagePoints(xform, Tail(pts))

_draw_polyline_from_vec3(cv, xform, pts) ==
    IF Len(pts) < 2 THEN cv
    ELSE drawPath(cv, PagePoints(xform, pts), FALSE)

----------------------------------------------------------------------------
(* PDF drawing primitives.                                                 *)

\* Both seam arguments are Optional.  Nothing between saveState and
\* restoreState raises.
draw_edge_alignment_dashed_line(cv, seam_x_pt, seam_y_pt, page_w_pt, page_h_pt, inset_pt) ==
    LET dash_on_pt  == (5 * mm) \div 10
        dash_off_pt == (95 * mm) \div 10
        c1 == saveState(cv)
        c2 == setLineWidth(c1, (8 * pt) \div 10)
        c3 == setLineCap(c2, 1)
        c4 == setDash(c3, <<dash_on_pt, dash_off_pt>>)
        c5 == IF seam_x_pt.some
              THEN line(c4, seam_x_pt.v, inset_pt, seam_x_pt.v, page_h_pt - inset_pt)
              ELSE c4
        c6 == IF seam_y_pt.some
              THEN line(c5, inset_pt, seam_y_pt.v, page_w_pt - inset_pt, seam_y_pt.v)
              ELSE c5
    IN  restoreState(c6)

draw_scale_bar(cv, x, y, length_mm) ==
    LET length_pt == length_mm * mm
        c1 == setLineWidth(cv, pt)
        c2 == line(c1, x, y, x + length_pt, y)
        c3 == line(c2, x, y - 2 * mm, x, y + 2 * mm)
        c4 == line(c3, x + length_pt, y - 2 * mm, x + length_pt, y + 2 * mm)
        c5 == setFont(c4, "Helvetica", 8)
    IN  drawString(c5, x, y + 3 * mm, [fmt |-> "mm scale bar", n |-> <<length_mm>>])

\* The try block of draw_entity: [c, raised].  An entity whose geometry
\* cannot be read raises at its first access; an unknown kind falls through.
draw_entity_try(cv, e, xform) ==
    LET ok(cc)  == [c |-> cc, raised |-> FALSE]
        p(n)    == w2p(xform, e.pts[n][1], e.pts[n][2])
        r_pt    == e.r * xform.scale_wu_to_pt
    IN  CASE e.kind = "LINE" ->
               IF e.raises THEN [c |-> cv, raised |-> TRUE]
               ELSE ok(line(cv, p(1)[1], p(1)[2], p(2)[1], p(2)[2]))
          [] e.kind \in {"LWPOLYLINE", "POLYLINE"} ->
               IF e.raises THEN [c |-> cv, raised |-> TRUE]
               ELSE IF e.pts = <<>> THEN ok(cv)
               ELSE ok(drawPath(cv, PagePoints(xform, e.pts), e.closed))
          [] e.kind = "CIRCLE" ->
               IF e.raises THEN [c |-> cv, raised |-> TRUE]
               ELSE ok(circle(cv, p(1)[1], p(1)[2], r_pt, FALSE))
          [] e.kind = "ARC" ->
               IF e.raises THEN [c |-> cv, raised |-> TRUE]
               ELSE ok(arc(cv, p(1)[1] - r_pt, p(1)[2] - r_pt, p(1)[1] + r_pt, p(1)[2] + r_pt,
                           e.a0, e.a1 - e.a0))
          [] e.kind = "POINT" ->
               IF e.raises THEN [c |-> cv, raised |-> TRUE]
               ELSE ok(circle(cv, p(1)[1], p(1)[2], (4 * mm) \div 10, TRUE))
          [] e.kind \in PathKinds ->
               ok(_draw_polyline_from_vec3(cv, xform,
                    _flatten_path_entity_points(e, xform.scale_wu_to_pt, FlattenMmTenths)))
          [] OTHER -> ok(cv)

\* draw_entity with the restoreState after the try block instead of in a
\* finally clause: an exception leaves the saved state on the stack.
draw_entity_no_finally(cv, e, xform, d, exclude_noncontinuous_linetypes) ==
    LET lt_name == _effective_linetype_name(d, e)
    IN  IF exclude_noncontinuous_linetypes /\ ~_linetype_name_is_continuous(lt_name)
        THEN [c |-> cv, raised |-> FALSE]
        ELSE LET dash == _reportlab_dash_array_for_linetype(d, lt_name, xform.scale_wu_to_pt)
                 c1   == saveState(cv)
                 c2   == IF dash.some /\ dash.v # <<>> THEN setDash(c1, dash.v) ELSE c1
                 body == draw_entity_try(c2, e, xform)
             IN  [c |-> IF body.raised THEN body.c ELSE restoreState(body.c),
                  raised |-> body.raised]

\* [c, raised]: the canvas after the call, and whether the call raised.
\* main always passes doc, so the doc-is-None branch is not modelled.
draw_entity(cv, e, xform, d, exclude_noncontinuous_linetypes) ==
    LET lt_name == _effective_linetype_name(d, e)
    IN  IF exclude_noncontinuous_linetypes /\ ~_linetype_name_is_continuous(lt_name)
        THEN [c |-> cv, raised |-> FALSE]
        ELSE LET dash == _reportlab_dash_array_for_linetype(d, lt_name, xform.scale_wu_to_pt)
                 c1   == saveState(cv)
                 c2   == IF dash.some /\ dash.v # <<>> THEN setDash(c1, dash.v) ELSE c1
                 body == draw_entity_try(c2, e, xform)
             IN  [c |-> restoreState(body.c), raised |-> body.raised]

----------------------------------------------------------------------------
(* Tiling logic.                                                           *)

\* The tile loops nested the other way round: columns outside, rows inside.
RECURSIVE TileLoop_ColumnMajor(_, _, _, _, _, _, _, _)
TileLoop_ColumnMajor(i, j, nx, ny, minx, miny, step_w, step_h) ==
    IF i >= nx THEN <<>>
    ELSE IF j >= ny THEN TileLoop_ColumnMajor(i + 1, 0, nx, ny, minx, miny, step_w, step_h)
    ELSE <<  <<i, j, minx + i * step_w, miny + j * step_h>>  >>
         \o TileLoop_ColumnMajor(i, j + 1, nx, ny, minx, miny, step_w, step_h)

\* for j in range(ny): for i in range(nx): tiles.append((i, j, x0, y0))
RECURSIVE TileLoop(_, _, _, _, _, _, _, _)
TileLoop(i, j, nx, ny, minx, miny, step_w, step_h) ==
    IF j >= ny THEN <<>>
    ELSE IF i >= nx THEN TileLoop(0, j + 1, nx, ny, minx, miny, step_w, step_h)
    ELSE <<  <<i, j, minx + i * step_w, miny + j * step_h>>  >>
         \o TileLoop(i + 1, j, nx, ny, minx, miny, step_w, step_h)

NoPlan == [ok |-> FALSE, tiles |-> <<>>, nx |-> 0, ny |-> 0, err |-> ""]

\* compute_tiles with the tile counts rounded down instead of up.
compute_tiles_floor(bb, printable_w_wu, printable_h_wu, overlap_wu) ==
    LET total_w == bb[3] - bb[1]
        total_h == bb[4] - bb[2]
        step_w  == printable_w_wu - overlap_wu
        step_h  == printable_h_wu - overlap_wu
    IN  IF step_w <= 0 \/ step_h <= 0
        THEN [NoPlan EXCEPT !.err = "overlap too large"]
        ELSE LET nx == Max2(1, (total_w - overlap_wu) \div step_w)
                 ny == Max2(1, (total_h - overlap_wu) \div step_h)
             IN  [ok |-> TRUE,
                  tiles |-> TileLoop(0, 0, nx, ny, bb[1], bb[2], step_w, step_h),
                  nx |-> nx, ny |-> ny, err |-> ""]

\* compute_tiles that refuses only when both steps are <= 0: with one step
\* negative max(1, ...) yields one tile on that axis, with one step zero the
\* division raises.
compute_tiles_and(bb, printable_w_wu, printable_h_wu, overlap_wu) ==
    LET total_w == bb[3] - bb[1]
        total_h == bb[4] - bb[2]
        step_w  == printable_w_wu - overlap_wu
        step_h  == printable_h_wu - overlap_wu
        count(total, step) == IF step < 0 THEN 1 ELSE Max2(1, CeilDiv(total - overlap_wu, step))
    IN  IF step_w <= 0 /\ step_h <= 0
        THEN [NoPlan EXCEPT !.err = "overlap too large"]
        ELSE IF step_w = 0 \/ step_h = 0
        THEN [NoPlan EXCEPT !.err = "float division by zero"]
        ELSE LET nx == count(total_w, step_w)
                 ny == count(total_h, step_h)
             IN  [ok |-> TRUE,
                  tiles |-> TileLoop(0, 0, nx, ny, bb[1], bb[2], step_w, step_h),
                  nx |-> nx, ny |-> ny, err |-> ""]

\* compute_tiles with the tile counts taken from the whole extent, the
\* overlap not subtracted: ceil(total / step).
compute_tiles_whole_extent(bb, printable_w_wu, printable_h_wu, overlap_wu) ==
    LET total_w == bb[3] - bb[1]
        total_h == bb[4] - bb[2]
        step_w  == printable_w_wu - overlap_wu
        step_h  == printable_h_wu - overlap_wu
    IN  IF step_w <= 0 \/ step_h <= 0
        THEN [NoPlan EXCEPT !.err = "overlap too large"]
        ELSE LET nx == Max2(1, CeilDiv(total_w, step_w))
                 ny == Max2(1, CeilDiv(total_h, step_h))
             IN  [ok |-> TRUE,
                  tiles |-> TileLoop(0, 0, nx, ny, bb[1], bb[2], step_w, step_h),
                  nx |-> nx, ny |-> ny, err |-> ""]

\* [ok, tiles, nx, ny, err]: the returned triple, or the ValueError.
compute_tiles(bb, printable_w_wu, printable_h_wu, overlap_wu) ==
    LET total_w == bb[3] - bb[1]
        total_h == bb[4] - bb[2]
        step_w  == printable_w_wu - overlap_wu
        step_h  == printable_h_wu - overlap_wu
    IN  IF step_w <= 0 \/ step_h <= 0
        THEN [NoPlan EXCEPT !.err = "overlap too large"]
        ELSE LET nx == Max2(1, CeilDiv(total_w - overlap_wu, step_w))
                 ny == Max2(1, CeilDiv(total_h - overlap_wu, step_h))
             IN  [ok |-> TRUE,
                  tiles |-> TileLoop(0, 0, nx, ny, bb[1], bb[2], step_w, step_h),
                  nx |-> nx, ny |-> ny, err |-> ""]

----------------------------------------------------------------------------
(* The inputs of a run: the command line and the drawing.                  *)

\* Entities a drawing holds at most.
MaxEnts == 2

Units == {"mm", "inch"}

PageNames == {"letter", "a4"}

\* --margin-mm: the default, and one that is more than half of either page.
MarginsMm == {10, 110}

\* --overlap-mm: the default, and one wider than the printable area.
OverlapsMm == {10, 200}

\* --layers: absent (held as <<>>), or "0".
LayerLists == {<<>>, <<"0">>}

\* The drawings are laid out on a grid of 100 mm (dxf units mm) or of
\* 4 inch (dxf units inch).
Cell(units) == IF units = "mm" THEN 100 * WUnit ELSE 4 * WUnit

Ent(kind, pts, r, closed, layer, linetype, raises) ==
    [kind |-> kind, pts |-> pts, r |-> r, a0 |-> 30, a1 |-> 200, closed |-> closed,
     layer |-> layer, linetype |-> linetype, raises |-> raises]

Pool(units) ==
    LET g == Cell(units)
    IN  << Ent("LINE", << <<0, 0>>, <<4 * g, 3 * g>> >>, 0, FALSE, "0", "Continuous", FALSE),
           Ent("LINE", << <<g, g>>, <<2 * g, g>> >>, 0, FALSE, "0", "DASHED", FALSE),
           Ent("LWPOLYLINE", << <<0, 0>>, <<g, 0>>, <<g, 2 * g>> >>, 0, TRUE, "HID", "BYLAYER", FALSE),
           Ent("LWPOLYLINE", <<>>, 0, FALSE, "0", "", FALSE),
           Ent("POLYLINE", << <<0 - g, 0>>, <<g, g>> >>, 0, FALSE, "0", "dashed", FALSE),
           Ent("POLYLINE", <<>>, 0, FALSE, "0", "DOT", FALSE),
           Ent("CIRCLE", << <<2 * g, 2 * g>> >>, g, FALSE, "0", "ByBlock", FALSE),
           Ent("ARC", << <<g, g>> >>, g, FALSE, "0", "dot", FALSE),
           Ent("POINT", << <<3 * g, g>> >>, 0, FALSE, "GONE", "", FALSE),
           Ent("SPLINE", << <<0, 0>>, <<g, g>>, <<2 * g, 0>> >>, 0, FALSE, "0", "DASH1", FALSE),
           Ent("ELLIPSE", << <<g, 2 * g>> >>, 0, FALSE, "HID", "cont", FALSE),
           Ent("SPLINE", << <<0, 0>>, <<g, g>> >>, 0, FALSE, "0", "EMPTY", TRUE),
           Ent("TEXT", <<>>, 0, FALSE, "0", "MISSING", FALSE),
           Ent("POLYLINE", << <<0, 0>>, <<g, g>> >>, 0, FALSE, "0", "DASHED", TRUE) >>

\* The layer table (layer -> linetype) and the linetype table (name ->
\* simplified_line_pattern(), in WFU) of the drawings.
LayerTable == [n \in {"0", "HID"} |-> IF n = "0" THEN "Continuous" ELSE "DASHED"]

LinetypeTable ==
    [n \in {"DASHED", "DOT", "DASH1", "EMPTY"} |->
        CASE n = "DASHED" -> <<WUnit, WUnit \div 2>>
          [] n = "DOT"    -> <<0, WUnit>>
          [] n = "DASH1"  -> <<3 * WUnit>>
          [] OTHER        -> <<>>]

RECURSIVE Ascending(_)
Ascending(S) ==
    IF S = {} THEN <<>>
    ELSE LET m == CHOOSE x \in S : \A y \in S : x <= y
         IN  <<m>> \o Ascending(S \ {m})

\* The modelspaces: up to MaxEnts entities of the pool, in pool order.
Modelspaces(units) ==
    { [n \in 1..Cardinality(S) |-> Pool(units)[Ascending(S)[n]]] :
        S \in {T \in SUBSET (1..Len(Pool(units))) : Cardinality(T) <= MaxEnts} }

----------------------------------------------------------------------------
(* main.                                                                   *)

page_size(name) ==
    IF name = "letter" THEN <<612 * pt, 792 * pt>> ELSE <<210 * mm, 297 * mm>>

\* iter_entities
iter_entities(d, layers) ==
    LET keep(e) == ~(layers # <<>> /\ \A n \in 1..Len(layers) : layers[n] # e.layer)
    IN  SelectSeq(d.msp, keep)

\* scale, in PU per WFU
Scale(a) == IF a.dxf_units = "mm" THEN mm \div WUnit ELSE inch \div WUnit

\* overlap_wu: args.overlap_mm, or args.overlap_mm / 25.4
OverlapWu(a) ==
    IF a.dxf_units = "mm" THEN a.overlap_mm * WUnit
    ELSE (a.overlap_mm * WUnit * 10) \div 254

MarginPt(a) == a.margin_mm * mm

OverlapPt(a) == a.overlap_mm * mm

PageW(a) == page_size(a.page)[1]

PageH(a) == page_size(a.page)[2]

PrintableWPt(a) == PageW(a) - 2 * MarginPt(a)

PrintableHPt(a) == PageH(a) - 2 * MarginPt(a)

PrintableWWu(a) == PrintableWPt(a) \div Scale(a)

PrintableHWu(a) == PrintableHPt(a) \div Scale(a)

\* step_w_pt without the overlap taken off: the seam on the printable edge.
StepWPt_no_overlap(a) == PrintableWPt(a)

StepWPt(a) == PrintableWPt(a) - OverlapPt(a)

StepHPt(a) == PrintableHPt(a) - OverlapPt(a)

Tile == plan.tiles[ti]

Xform(a, tile) ==
    [scale_wu_to_pt |-> Scale(a), world_x0 |-> tile[3], world_y0 |-> tile[4],
     page_x0_pt |-> MarginPt(a), page_y0_pt |-> MarginPt(a)]

By(cv, part) == [cv EXCEPT !.who = Furniture(part)]

ByEntity(cv, n) == [cv EXCEPT !.who = [part |-> "entity", n |-> n]]

InitMain ==
    /\ args \in [page : PageNames, margin_mm : MarginsMm, overlap_mm : OverlapsMm,
                 dxf_units : Units, layers : LayerLists, exclude : BOOLEAN]
    /\ doc \in [msp : Modelspaces(args.dxf_units), layers : {LayerTable},
                linetypes : {LinetypeTable}]
    /\ pc = "start"
    /\ ents_list = <<>>
    /\ bbox = NoBox
    /\ plan = NoPlan
    /\ ti = 0
    /\ ei = 0
    /\ c = NewCanvas
    /\ pages = <<>>
    /\ err = ""
    /\ call = [fn |-> "main"]
    /\ ret = [fn |-> "main"]

Fail(msg) ==
    /\ pc' = "error"
    /\ err' = msg

\* os.path.exists(output_pdf): SystemExit
OutputExists ==
    /\ pc = "start"
    /\ Fail("output PDF already exists")
    /\ UNCHANGED <<args, doc, ents_list, bbox, plan, ti, ei, c, pages, call, ret>>

ReadDxf ==
    /\ pc = "start"
    /\ ents_list' = iter_entities(doc, args.layers)
    /\ pc' = "bbox"
    /\ UNCHANGED <<args, doc, bbox, plan, ti, ei, c, pages, err, call, ret>>

ComputeBBox ==
    /\ pc = "bbox"
    /\ LET r == drawing_bbox_wu(ents_list, Scale(args), FlattenMmTenths)
       IN  IF r.ok
           THEN /\ bbox' = Some(r.v)
                /\ pc' = "plan"
                /\ err' = err
           ELSE /\ Fail(r.err)
                /\ bbox' = bbox
    /\ UNCHANGED <<args, doc, ents_list, plan, ti, ei, c, pages, call, ret>>

\* PlanTiles with the canvas opened, and the first header written, before
\* the tiles are planned.
PlanTiles_CanvasFirst ==
    /\ pc = "plan"
    /\ LET r == compute_tiles(bbox.v, PrintableWWu(args), PrintableHWu(args), OverlapWu(args))
       IN  IF r.ok
           THEN /\ plan' = r
                /\ pc' = "canvas"
                /\ err' = err
           ELSE /\ Fail(r.err)
                /\ plan' = plan
    /\ c' = setLineWidth(NewCanvas, (6 * pt) \div 10)
    /\ UNCHANGED <<args, doc, ents_list, bbox, ti, ei, pages, call, ret>>

PlanTiles ==
    /\ pc = "plan"
    /\ LET r == compute_tiles(bbox.v, PrintableWWu(args), PrintableHWu(args), OverlapWu(args))
       IN  IF r.ok
           THEN /\ plan' = r
                /\ pc' = "canvas"
                /\ err' = err
           ELSE /\ Fail(r.err)
                /\ plan' = plan
    /\ UNCHANGED <<args, doc, ents_list, bbox, ti, ei, c, pages, call, ret>>

OpenCanvas ==
    /\ pc = "canvas"
    /\ c' = setLineWidth(NewCanvas, (6 * pt) \div 10)
    /\ ti' = 1
    /\ pc' = "header"
    /\ UNCHANGED <<args, doc, ents_list, bbox, plan, ei, pages, err, call, ret>>

TileHeader ==
    /\ pc = "header"
    /\ LET i  == Tile[1]
           j  == Tile[2]
           c1 == setFont(By(c, "header"), "Helvetica", 9)
           c2 == drawString(c1, MarginPt(args), PageH(args) - MarginPt(args) + 2 * pt,
                            [fmt |-> "Tile i/nx x j/ny", n |-> <<i + 1, plan.nx, j + 1, plan.ny>>])
       IN  c' = IF i = 0 /\ j = 0
                THEN draw_scale_bar(By(c2, "scalebar"), MarginPt(args) + 5 * mm,
                                    (PageH(args) - MarginPt(args)) - 8 * mm, 100)
                ELSE c2
    /\ pc' = "seams"
    /\ UNCHANGED <<args, doc, ents_list, bbox, plan, ti, ei, pages, err, call, ret>>

TileSeams ==
    /\ pc = "seams"
    /\ LET i  == Tile[1]
           j  == Tile[2]
           inset_pt == 10 * mm
           c1 == IF i < plan.nx - 1
                 THEN draw_edge_alignment_dashed_line(By(c, "seam_x"), Some(StepWPt(args)), None(0),
                                                      PageW(args), PageH(args), inset_pt)
                 ELSE c
           c2 == IF j < plan.ny - 1
                 THEN draw_edge_alignment_dashed_line(By(c1, "seam_y"), None(0), Some(StepHPt(args)),
                                                      PageW(args), PageH(args), inset_pt)
                 ELSE c1
       IN  c' = setLineWidth(By(c2, "entities"), pt)
    /\ ei' = 1
    /\ pc' = "entities"
    /\ UNCHANGED <<args, doc, ents_list, bbox, plan, ti, pages, err, call, ret>>

DrawEntity ==
    /\ pc = "entities"
    /\ ei <= Len(ents_list)
    /\ LET r == draw_entity(ByEntity(c, ei), ents_list[ei], Xform(args, Tile), doc, args.exclude)
       IN  /\ c' = r.c
           /\ IF r.raised
              THEN /\ Fail("draw_entity raised")
                   /\ ei' = ei
              ELSE /\ ei' = ei + 1
                   /\ UNCHANGED <<pc, err>>
    /\ UNCHANGED <<args, doc, ents_list, bbox, plan, ti, pages, call, ret>>

\* showPage closes the page and starts the next one with a fresh graphics state.
TileFooter ==
    /\ pc = "entities"
    /\ ei > Len(ents_list)
    /\ LET c1 == setFont(By(c, "footer"), "Helvetica", 7)
           c2 == drawString(c1, MarginPt(args), MarginPt(args) - 8 * pt,
                            [fmt |-> "World origin for tile", n |-> <<Tile[3], Tile[4]>>])
           c3 == Log(c2, "showPage", <<>>, FALSE)
       IN  pages' = Append(pages, c3.page)
    /\ c' = NewCanvas
    /\ IF ti < Len(plan.tiles)
       THEN /\ ti' = ti + 1
            /\ pc' = "header"
       ELSE /\ ti' = ti
            /\ pc' = "save"
    /\ UNCHANGED <<args, doc, ents_list, bbox, plan, ei, err, call, ret>>

Save ==
    /\ pc = "save"
    /\ pc' = "done"
    /\ UNCHANGED <<args, doc, ents_list, bbox, plan, ti, ei, c, pages, err, call, ret>>

Next ==
    \/ OutputExists
    \/ ReadDxf
    \/ ComputeBBox
    \/ PlanTiles
    \/ OpenCanvas
    \/ TileHeader
    \/ TileSeams
    \/ DrawEntity
    \/ TileFooter
    \/ Save

Spec == InitMain /\ [][Next]_vars

----------------------------------------------------------------------------
(* compute_tiles called on its own: the bounding box, the printable size   *)
(* and the overlap are drawn from small ranges of world units.             *)

\* Largest extent of the bounding box on an axis.
MaxExtent == 6

\* Largest printable width and height; the overlap ranges over 0..MaxPrintable.
MaxPrintable == 3

Idle ==
    /\ args = [fn |-> "none"]
    /\ ents_list = <<>>
    /\ bbox = NoBox
    /\ plan = NoPlan
    /\ ti = 0
    /\ ei = 0
    /\ c = NewCanvas
    /\ pages = <<>>
    /\ err = ""

Boxes ==
    { <<x, y, x + w, y + h>> : x \in {0 - 2, 0, 3}, y \in {0}, w \in 0..MaxExtent, h \in 0..MaxExtent }

InitTiles ==
    /\ Idle
    /\ doc = [msp |-> <<>>, layers |-> LayerTable, linetypes |-> LinetypeTable]
    /\ call \in [fn : {"compute_tiles"}, bbox : Boxes, pw : 1..MaxPrintable,
                 ph : 1..MaxPrintable, o : 0..MaxPrintable]
    /\ ret = NoPlan
    /\ pc = "call"

CallComputeTiles ==
    /\ pc = "call"
    /\ call.fn = "compute_tiles"
    /\ ret' = compute_tiles(call.bbox, call.pw, call.ph, call.o)
    /\ pc' = IF ret'.ok THEN "returned" ELSE "raised"
    /\ UNCHANGED <<args, doc, ents_list, bbox, plan, ti, ei, c, pages, err, call>>

NextTiles == CallComputeTiles

SpecTiles == InitTiles /\ [][NextTiles]_vars

StepW == call.pw - call.o

StepH == call.ph - call.o

TotalW == call.bbox[3] - call.bbox[1]

TotalH == call.bbox[4] - call.bbox[2]

\* n = max(1, ceil(num / den)) for den > 0, said without dividing.
IsTileCount(n, num, den) ==
    /\ n >= 1
    /\ n * den >= num
    /\ n > 1 => (n - 1) * den < num

\* C1: for a bounding box with extent >= 0 and 0 <= O < P on both axes,
\* compute_tiles returns tileCountX = max(1, ceil((totalWidth - O) / (Pw - O)))
\* and tileCountY likewise, one tile per cell (i, j) of the tileCountX by
\* tileCountY grid, each with origin (minX + i*(Pw - O), minY + j*(Ph - O));
\* so the origins of tiles adjacent along an axis differ by exactly P - O,
\* and an extent equal to P gives exactly one tile on that axis.
C1_TileGrid ==
    (pc # "call" /\ call.fn = "compute_tiles" /\ StepW > 0 /\ StepH > 0) =>
        /\ pc = "returned"
        /\ IsTileCount(ret.nx, TotalW - call.o, StepW)
        /\ IsTileCount(ret.ny, TotalH - call.o, StepH)
        /\ Len(ret.tiles) = ret.nx * ret.ny
        /\ \A i \in 0..(ret.nx - 1), j \in 0..(ret.ny - 1) :
              Cardinality({n \in 1..Len(ret.tiles) :
                              ret.tiles[n][1] = i /\ ret.tiles[n][2] = j}) = 1
        /\ \A n \in 1..Len(ret.tiles) :
              /\ ret.tiles[n][1] \in 0..(ret.nx - 1)
              /\ ret.tiles[n][2] \in 0..(ret.ny - 1)
              /\ ret.tiles[n][3] = call.bbox[1] + ret.tiles[n][1] * StepW
              /\ ret.tiles[n][4] = call.bbox[2] + ret.tiles[n][2] * StepH
        /\ \A n, m \in 1..Len(ret.tiles) :
              /\ (ret.tiles[m][2] = ret.tiles[n][2] /\ ret.tiles[m][1] = ret.tiles[n][1] + 1)
                    => ret.tiles[m][3] - ret.tiles[n][3] = call.pw - call.o
              /\ (ret.tiles[m][1] = ret.tiles[n][1] /\ ret.tiles[m][2] = ret.tiles[n][2] + 1)
                    => ret.tiles[m][4] - ret.tiles[n][4] = call.ph - call.o
        /\ TotalW = call.pw => ret.nx = 1
        /\ TotalH = call.ph => ret.ny = 1

\* Several columns under a positive overlap, and a height that is exactly
\* the printable height.
C1_Witness ==
    /\ pc = "returned"
    /\ call.o > 0
    /\ ret.nx >= 3
    /\ TotalH = call.ph
    /\ ret.ny = 1

\* C2: compute_tiles raises "overlap too large", returning no tile list,
\* exactly when the overlap is >= the printable width or >= the printable
\* height; on every other input it returns a tile list.
C2_OverlapTooLarge ==
    (pc # "call" /\ call.fn = "compute_tiles") =>
        /\ (pc = "raised") <=> (call.o >= call.pw \/ call.o >= call.ph)
        /\ pc = "raised" => (~ret.ok /\ ret.err = "overlap too large" /\ ret.tiles = <<>>)
        /\ pc = "returned" => (ret.ok /\ ret.err = "" /\ Len(ret.tiles) >= 1)
        /\ pc \in {"raised", "returned"}

\* The overlap equals the printable height and is less than the printable width.
C2_Witness ==
    /\ pc = "raised"
    /\ call.o = call.ph
    /\ call.o < call.pw

----------------------------------------------------------------------------
(* Whole runs.                                                             *)

Final == {"done", "error"}

\* Every call logged so far: the closed pages, then the open page.
RECURSIVE Flatten(_)
Flatten(ps) == IF ps = <<>> THEN <<>> ELSE ps[1] \o Flatten(Tail(ps))

AllCalls == Flatten(pages) \o c.page

\* The run-level preconditions, said on the inputs in physical page units.
NoGeometry ==
    \A n \in 1..Len(doc.msp) :
        \/ (args.layers # <<>> /\ doc.msp[n].layer \notin {args.layers[m] : m \in 1..Len(args.layers)})
        \/ ~entity_bbox_wu(doc.msp[n], Scale(args), FlattenMmTenths).some

OverlapTooLarge ==
    \/ args.overlap_mm * mm >= PageW(args) - 2 * args.margin_mm * mm
    \/ args.overlap_mm * mm >= PageH(args) - 2 * args.margin_mm * mm

MarginTooLarge ==
    \/ 2 * args.margin_mm * mm >= PageW(args)
    \/ 2 * args.margin_mm * mm >= PageH(args)

PreconditionFails == NoGeometry \/ OverlapTooLarge \/ MarginTooLarge

\* C3: when a run-level precondition fails (no entity yields a bounding box,
\* overlap >= a printable dimension, margin >= half a page dimension), the
\* run ends in an error before any call reaches the sink: no page is begun,
\* nothing is drawn, no page is closed.
C3_FailsBeforeOutput ==
    PreconditionFails =>
        /\ pc \in {"start", "bbox", "plan", "error"}
        /\ c = NewCanvas
        /\ pages = <<>>
        /\ AllCalls = <<>>
        /\ pc = "error" =>
              err \in {"output PDF already exists", "no supported geometry", "overlap too large"}
        /\ (pc = "error" /\ err = "overlap too large") => OverlapTooLarge
        /\ (pc = "error" /\ err = "no supported geometry") => NoGeometry

\* The margin is more than half the page width, the drawing has geometry,
\* and the run has stopped.
C3_Witness ==
    /\ MarginTooLarge
    /\ ~NoGeometry
    /\ args.overlap_mm = 10
    /\ pc = "error"
    /\ err = "overlap too large"
    /\ AllCalls = <<>>

\* The tile the k-th page (1-based) must show when pages follow the grid row
\* by row: column (k-1) mod nx, row (k-1) div nx.
GridStepW == (PageW(args) - 2 * args.margin_mm * mm - args.overlap_mm * mm) \div Scale(args)

GridStepH == (PageH(args) - 2 * args.margin_mm * mm - args.overlap_mm * mm) \div Scale(args)

ExpectedTile(k) ==
    LET i == (k - 1) % plan.nx
        j == (k - 1) \div plan.nx
    IN  <<i, j, bbox.v[1] + i * GridStepW, bbox.v[2] + j * GridStepH>>

CallsOf(page, part) == SelectSeq(page, LAMBDA x : x.who.part = part)

OpsOf(page, op) == SelectSeq(page, LAMBDA x : x.op = op)

\* Page k is the page of ExpectedTile(k): one label, one footer, one showPage
\* that is its last call.
IsPageOfTile(page, k) ==
    LET tile   == ExpectedTile(k)
        labels == OpsOf(CallsOf(page, "header"), "drawString")
        notes  == OpsOf(CallsOf(page, "footer"), "drawString")
    IN  /\ Len(labels) = 1
        /\ labels[1].text = [fmt |-> "Tile i/nx x j/ny",
                             n |-> <<tile[1] + 1, plan.nx, tile[2] + 1, plan.ny>>]
        /\ Len(notes) = 1
        /\ notes[1].text.n = <<tile[3], tile[4]>>
        /\ Len(OpsOf(page, "showPage")) = 1
        /\ page[Len(page)].op = "showPage"

C4_PagesInv ==
    /\ pc \notin {"start", "bbox", "plan"} /\ plan.ok =>
          /\ Len(pages) <= plan.nx * plan.ny
          /\ \A k \in 1..Len(pages) : IsPageOfTile(pages[k], k)
          /\ pc \in {"header", "seams", "entities"} => ti = Len(pages) + 1
    /\ pc \in {"save", "done"} => Len(pages) = plan.nx * plan.ny
    /\ pc = "done" => c = NewCanvas
    /\ compute_tiles(<<0, 0, 500, 300>>, 277, 180, 10).tiles
          = << <<0, 0, 0, 0>>, <<1, 0, 267, 0>>, <<0, 1, 0, 170>>, <<1, 1, 267, 170>> >>

\* A rank that every step of main lowers: the phase first, then the tiles
\* still to draw, then the calls still to make on the open page.
PhaseRank ==
    CASE pc = "start"  -> 6
      [] pc = "bbox"   -> 5
      [] pc = "plan"   -> 4
      [] pc = "canvas" -> 3
      [] pc \in {"header", "seams", "entities"} -> 2
      [] pc = "save"   -> 1
      [] OTHER         -> 0

StepsLeft ==
    LET perTile == Len(ents_list) + 3
        onPage  == CASE pc = "header" -> Len(ents_list) + 3
                     [] pc = "seams"  -> Len(ents_list) + 2
                     [] pc = "entities" -> Len(ents_list) + 2 - ei
                     [] OTHER -> 0
    IN  IF pc \in {"header", "seams", "entities"}
        THEN (Len(plan.tiles) - ti) * perTile + onPage
        ELSE 0

Rank == PhaseRank * 1000 + StepsLeft

\* C4: a successful run emits exactly tileCountX * tileCountY pages, one per
\* tile, in row-by-row order with the column index varying fastest: page k
\* (0-based) is the tile i = k mod nx, j = k div nx, labelled
\* "Tile i+1/nx x j+1/ny"; bbox (0,0)-(500,300) with printable area 277x180
\* and overlap 10 gives the origins (0,0),(267,0),(0,170),(267,170) in that
\* order; and the run ends after the last page: every step lowers Rank, and
\* the step that closes the last page leads to save and then to done.
C4_PagesInOrder ==
    /\ []C4_PagesInv
    /\ [][ /\ Rank' < Rank
           /\ Rank' >= 0
           /\ (Len(pages') > Len(pages) /\ Len(pages') = plan.nx * plan.ny) => pc' = "save"
           /\ pc = "save" => pc' = "done" ]_vars

\* A finished run of three columns and two rows.
C4_Witness ==
    /\ pc = "done"
    /\ plan.nx = 3
    /\ plan.ny = 2
    /\ Len(pages) = 6

\* The calls that paint the page furniture: label, scale bar, footer, and the
\* line width set for the entities.
FurnitureParts == {"header", "scalebar", "footer", "entities", "main"}

SeamDash == Some(<<(5 * mm) \div 10, (95 * mm) \div 10>>)

\* The dash patterns entity n has itself set, in the calls logged so far.
DashesSetBy(calls, n) ==
    { Some(calls[m].a) : m \in { k \in 1..Len(calls) :
          calls[k].op = "setDash" /\ calls[k].who = [part |-> "entity", n |-> n] } }

C5_LogInv ==
    /\ c.stack = <<>>
    /\ c.gs.dash = NoDash
    /\ LET calls == AllCalls
       IN  \A m \in 1..Len(calls) :
              LET x == calls[m]
              IN  /\ x.op = "saveState" => x.gs.dash = NoDash
                  /\ x.who.part \in FurnitureParts => x.gs.dash = NoDash
                  /\ (x.who.part \in {"seam_x", "seam_y"} /\ x.op = "line")
                        => x.gs.dash = SeamDash
                  /\ (x.who.part = "entity" /\ x.op \in ShapeOps)
                        => x.gs.dash \in ({NoDash} \cup DashesSetBy(calls, x.who.n))

\* C5: every draw_entity call and every seam-indicator call leaves the
\* sink's saved-state stack depth and its current dash pattern as they were
\* before the call, on every exit path (return after drawing, empty-vertex
\* return, unknown kind, exclusion by the linetype filter, exception); so the
\* stack is empty and no dash is in effect between calls, every entity and
\* every seam starts from the solid stroke, and the page furniture is always
\* painted solid.
C5_StateRestored ==
    /\ []C5_LogInv
    /\ [][ (pc = "seams" \/ (pc = "entities" /\ ei <= Len(ents_list))) =>
              /\ Len(c'.stack) = Len(c.stack)
              /\ c'.stack = c.stack
              /\ c'.gs.dash = c.gs.dash ]_vars

\* A dashed entity whose drawing raised: its dash was set, the call has
\* ended, and the sink is back to the solid stroke with an empty stack.
C5_Witness ==
    /\ pc = "error"
    /\ err = "draw_entity raised"
    /\ \E m \in 1..Len(c.page) :
          /\ c.page[m].op = "setDash"
          /\ c.page[m].who = [part |-> "entity", n |-> ei]
    /\ c.page[Len(c.page)].op = "restoreState"
    /\ c.stack = <<>>
    /\ c.gs.dash = NoDash

\* The seam lines of one page.
SeamLines(page, part) == OpsOf(CallsOf(page, part), "line")

\* The page of tile (i, j) carries its seam indicators at off_x + stepWidth
\* and off_y + stepHeight: a vertical dashed line over the page height less
\* the 10 mm inset unless the tile is in the last column, a horizontal one
\* over the page width less the inset unless it is in the last row.
HasSeamsAt(page, i, j, off_x, off_y) ==
    LET inset  == 10 * mm
        step_w == PageW(args) - 2 * args.margin_mm * mm - args.overlap_mm * mm
        step_h == PageH(args) - 2 * args.margin_mm * mm - args.overlap_mm * mm
        vert   == SeamLines(page, "seam_x")
        horiz  == SeamLines(page, "seam_y")
    IN  /\ IF i < plan.nx - 1
           THEN /\ Len(vert) = 1
                /\ vert[1].a = <<off_x + step_w, inset, off_x + step_w, PageH(args) - inset>>
                /\ vert[1].gs.dash = SeamDash
           ELSE vert = <<>>
        /\ IF j < plan.ny - 1
           THEN /\ Len(horiz) = 1
                /\ horiz[1].a = <<inset, off_y + step_h, PageW(args) - inset, off_y + step_h>>
                /\ horiz[1].gs.dash = SeamDash
           ELSE horiz = <<>>

\* Every closed page, and the open page once its seams are drawn.
SeamsAt(off_x, off_y) ==
    /\ \A k \in 1..Len(pages) :
          HasSeamsAt(pages[k], ExpectedTile(k)[1], ExpectedTile(k)[2], off_x, off_y)
    /\ pc = "entities" => HasSeamsAt(c.page, Tile[1], Tile[2], off_x, off_y)

\* C6 as stated: on the page of every tile not in the last column a vertical
\* dashed seam indicator is drawn at x = margin + stepWidth, on the page of
\* every tile not in the last row a horizontal one at y = margin + stepHeight,
\* and a tile in the last column (row) gets no vertical (horizontal) one.
C6_SeamAtMarginPlusStep == SeamsAt(args.margin_mm * mm, args.margin_mm * mm)

\* C6 as the code has it: the seam indicators are drawn at x = stepWidth and
\* y = stepHeight measured from the paper's edge, which is where the paper
\* edge of the next page lands when its printable-area origin is laid on the
\* image of the next tile's origin (margin + stepWidth, less the margin); a
\* tile in the last column (row) gets no vertical (horizontal) one.
C6_SeamAtStep ==
    /\ SeamsAt(0, 0)
    /\ \A k \in 1..Len(pages) :
          LET tile == ExpectedTile(k)
              xf   == [scale_wu_to_pt |-> Scale(args), world_x0 |-> tile[3], world_y0 |-> tile[4],
                       page_x0_pt |-> args.margin_mm * mm, page_y0_pt |-> args.margin_mm * mm]
              next == w2p(xf, tile[3] + GridStepW, tile[4] + GridStepH)
          IN  /\ tile[1] < plan.nx - 1 =>
                    SeamLines(pages[k], "seam_x")[1].a[1] = next[1] - args.margin_mm * mm
              /\ tile[2] < plan.ny - 1 =>
                    SeamLines(pages[k], "seam_y")[1].a[2] = next[2] - args.margin_mm * mm

\* A finished run of several columns and rows: the first page carries both
\* seam indicators, the last page none.
C6_Witness ==
    /\ pc = "done"
    /\ plan.nx >= 2
    /\ plan.ny >= 2
    /\ Len(SeamLines(pages[1], "seam_x")) = 1
    /\ Len(SeamLines(pages[1], "seam_y")) = 1
    /\ SeamLines(pages[Len(pages)], "seam_x") = <<>>
    /\ SeamLines(pages[Len(pages)], "seam_y") = <<>>

\* The entities of the run for which entity_bbox_wu yields None.
Boxless ==
    { n \in 1..Len(ents_list) : ~entity_bbox_wu(ents_list[n], Scale(args), FlattenMmTenths).some }

\* ents_list without its n-th entity.
Without(n) == SubSeq(ents_list, 1, n - 1) \o SubSeq(ents_list, n + 1, Len(ents_list))

\* draw_entity has reached the sink for entity n on the page.
RenderedOn(page, n) ==
    \E m \in 1..Len(page) :
        page[m].op = "saveState" /\ page[m].who = [part |-> "entity", n |-> n]

\* C7: every entity for which entity_bbox_wu yields None is left out of both
\* results without aborting the run: the aggregate box is the one of the
\* list without it, no line, path, circle or arc is painted for it on any
\* tile, draw_entity does not raise for it, and the run goes on to draw the
\* other entities on every tile.
C7_BoxlessEntitySkipped ==
    \A n \in Boxless :
        /\ bbox.some =>
              bbox.v = drawing_bbox_wu(Without(n), Scale(args), FlattenMmTenths).v
        /\ \A m \in 1..Len(AllCalls) :
              AllCalls[m].who = [part |-> "entity", n |-> n] => AllCalls[m].op \notin ShapeOps
        /\ ~(pc = "error" /\ err = "draw_entity raised" /\ ei = n)
        /\ (pc = "done" /\ ~args.exclude) =>
              \A k \in 1..Len(pages), o \in 1..Len(ents_list) :
                  o \notin Boxless => RenderedOn(pages[k], o)

\* The per-entity boxes of the run that are not None.
DefinedBoxes ==
    { entity_bbox_wu(ents_list[n], Scale(args), FlattenMmTenths).v :
        n \in (1..Len(ents_list)) \ Boxless }

\* C8: when at least one entity has a defined box, drawing_bbox_wu returns
\* the coordinate-wise min (minX, minY) and max (maxX, maxY) over exactly the
\* non-None per-entity boxes, so that appending any further entity to the
\* list never shrinks the aggregate box; when no entity has a defined box it
\* fails with "no supported geometry" instead of returning a box.
C8_AggregateBox ==
    (pc \notin {"start", "bbox"} /\ err # "output PDF already exists") =>
        IF DefinedBoxes = {}
        THEN /\ pc = "error"
             /\ err = "no supported geometry"
             /\ ~bbox.some
        ELSE /\ bbox.some
             /\ err # "no supported geometry"
             /\ \A b \in DefinedBoxes :
                   /\ bbox.v[1] <= b[1]
                   /\ bbox.v[2] <= b[2]
                   /\ bbox.v[3] >= b[3]
                   /\ bbox.v[4] >= b[4]
             /\ \A k \in 1..4 : \E b \in DefinedBoxes : bbox.v[k] = b[k]
             /\ \A n \in 1..Len(Pool(args.dxf_units)) :
                   LET more == drawing_bbox_wu(Append(ents_list, Pool(args.dxf_units)[n]),
                                               Scale(args), FlattenMmTenths)
                   IN  /\ more.ok
                       /\ more.v[1] <= bbox.v[1]
                       /\ more.v[2] <= bbox.v[2]
                       /\ more.v[3] >= bbox.v[3]
                       /\ more.v[4] >= bbox.v[4]

\* Two entities, one without a box and one whose box lies away from the
\* origin, and the aggregate box is the box of the second.
C8_Witness ==
    /\ pc = "plan"
    /\ Len(ents_list) = 2
    /\ Cardinality(Boxless) = 1
    /\ bbox.some
    /\ bbox.v[1] > 0
    /\ bbox.v[2] > 0
    /\ DefinedBoxes = {bbox.v}

----------------------------------------------------------------------------
(* _reportlab_dash_array_for_linetype called on its own: the drawing holds *)
(* one pattern under the names "DASHED" and " Cont ", and the function is  *)
(* asked for a name and a scale.                                           *)

\* Segments a linetype pattern holds at most.
MaxPatLen == 3

\* Segment lengths in WFU: negative, zero, half a unit, one unit.
SegLens == {0 - 635, 0, 635, WUnit}

RECURSIVE SeqsUpTo(_, _)
SeqsUpTo(S, n) ==
    IF n = 0 THEN {<<>>}
    ELSE LET shorter == SeqsUpTo(S, n - 1)
         IN  shorter \cup {Append(q, x) : q \in {r \in shorter : Len(r) = n - 1}, x \in S}

DashNames == {"", "Continuous", "CONTINUOUS", "cont", " Cont ", "DASHED", "dashed", "MISSING"}

\* scale_wu_to_pt in PU per WFU: 0, the mm scale, the inch scale.
DashScales == {0, mm \div WUnit, inch \div WUnit}

InitDash ==
    /\ Idle
    /\ call \in [fn : {"dash"}, name : DashNames, scale : DashScales,
                 pattern : SeqsUpTo(SegLens, MaxPatLen)]
    /\ doc = [msp |-> <<>>, layers |-> LayerTable,
              linetypes |-> [n \in {"DASHED", " Cont "} |-> call.pattern]]
    /\ ret = NoDash
    /\ pc = "call"

CallDashArray ==
    /\ pc = "call"
    /\ call.fn = "dash"
    /\ ret' = _reportlab_dash_array_for_linetype(doc, call.name, call.scale)
    /\ pc' = "returned"
    /\ UNCHANGED <<args, doc, ents_list, bbox, plan, ti, ei, c, pages, err, call>>

NextDash == CallDashArray

SpecDash == InitDash /\ [][NextDash]_vars

\* The names the drawing resolves to its pattern, letter case apart.
DashResolved == call.name \in {"DASHED", "dashed", " Cont "}

\* The array the pattern must give: each segment times scale * 0.3, a
\* non-positive product replaced by 0.2 mm, the whole repeated once more
\* when the pattern has an odd number of segments.
IsScaledPattern(array) ==
    LET n == Len(call.pattern)
    IN  /\ Len(array) = IF n % 2 = 1 THEN 2 * n ELSE n
        /\ Len(array) % 2 = 0
        /\ \A k \in 1..Len(array) :
              LET prod10 == call.pattern[((k - 1) % n) + 1] * call.scale * 3
              IN  /\ array[k] > 0
                  /\ prod10 > 0 => 10 * array[k] = prod10
                  /\ prod10 <= 0 => 10 * array[k] = 2 * mm

\* None exactly for the names in continuous, for an unresolved name and for
\* an empty pattern; the scaled pattern otherwise.
DashArrayFor(continuous) ==
    (pc = "returned" /\ call.fn = "dash") =>
        IF call.name \in continuous \/ ~DashResolved \/ call.pattern = <<>>
        THEN ~ret.some
        ELSE ret.some /\ IsScaledPattern(ret.v)

\* C9 as stated: None for a continuous name ("CONTINUOUS" or "CONT" in any
\* letter case, or empty), for a pattern that cannot be resolved or is empty;
\* in every other case an array of an even number of strictly positive
\* segments, the source pattern with each segment multiplied by scale * 0.3
\* (0.2 mm for a non-positive product), repeated once more when the source
\* pattern has an odd number of segments.
C9_DashArrayAnyCase == DashArrayFor({"", "Continuous", "CONTINUOUS", "cont"})

\* C9 as the code has it: the name also counts as continuous when it reads
\* "CONTINUOUS" or "CONT" once the white space around it is stripped, and
\* then the result is None even though the drawing holds a pattern of that
\* name; the rest as stated.
C9_DashArrayStripped == DashArrayFor({"", "Continuous", "CONTINUOUS", "cont", " Cont "})

\* The name " Cont " with a one-segment pattern in the drawing: None.
C9_Witness ==
    /\ pc = "returned"
    /\ call.fn = "dash"
    /\ call.name = " Cont "
    /\ Len(call.pattern) = 1
    /\ call.pattern[1] > 0
    /\ call.scale > 0
    /\ ~ret.some

----------------------------------------------------------------------------
(* The linetype filter in whole runs.                                      *)

\* The entities of the drawings whose effective linetype is continuous: the
\* explicit name is, or the name is by-block, or it is by-layer (or absent)
\* on layer "0", whose linetype is Continuous, or on the layer "GONE", which
\* the layer table does not hold.
EffectiveContinuous(e) ==
    \/ e.linetype \in {"Continuous", "cont", "ByBlock"}
    \/ e.linetype \in {"", "ByLayer", "BYLAYER"} /\ e.layer \in {"0", "GONE"}

C10_LogInv ==
    args.exclude =>
        \A n \in 1..Len(ents_list) :
            IF EffectiveContinuous(ents_list[n])
            THEN \A k \in 1..Len(pages) : RenderedOn(pages[k], n)
            ELSE \A m \in 1..Len(AllCalls) : AllCalls[m].who # [part |-> "entity", n |-> n]

\* C10: with the excludeNonContinuous flag set, draw_entity makes no call at
\* all to the sink (not even saveState/restoreState) for an entity whose
\* effective linetype is not continuous (the explicit name; the layer's
\* linetype for by-layer, continuous when the layer or its linetype cannot
\* be resolved; continuous for by-block), and every entity whose effective
\* linetype is continuous is rendered exactly as with the flag clear.
C10_FilterBeforeSink ==
    /\ []C10_LogInv
    /\ [][ (pc = "entities" /\ ei <= Len(ents_list) /\ args.exclude) =>
              IF EffectiveContinuous(ents_list[ei])
              THEN c' = draw_entity(ByEntity(c, ei), ents_list[ei], Xform(args, Tile), doc, FALSE).c
              ELSE /\ c'.page = c.page
                   /\ c'.stack = c.stack
                   /\ c'.gs = c.gs
                   /\ ei' = ei + 1
                   /\ pc' = pc ]_vars

\* A finished run with the flag set over a dashed line and a by-block
\* circle: no call for the line, the circle on the first page.
C10_Witness ==
    /\ pc = "done"
    /\ args.exclude
    /\ Len(ents_list) = 2
    /\ ents_list[1].linetype = "DASHED"
    /\ ents_list[2].linetype = "ByBlock"
    /\ \A m \in 1..Len(AllCalls) : AllCalls[m].who # [part |-> "entity", n |-> 1]
    /\ \E m \in 1..Len(pages[1]) :
          pages[1][m].op = "circle" /\ pages[1][m].who = [part |-> "entity", n |-> 2]

----------------------------------------------------------------------------
(* Coverage of the bounding box by the tiles of compute_tiles.             *)

\* The origins of the returned tiles on each axis.
OriginsX == {ret.tiles[n][3] : n \in 1..Len(ret.tiles)}

OriginsY == {ret.tiles[n][4] : n \in 1..Len(ret.tiles)}

\* The intervals [o, o + p] for o in origins leave no gap between the least
\* origin and the greatest end: every origin but the least starts at or
\* before the end of another tile that starts before it.
NoGap(origins, p) ==
    \A o \in origins :
        \/ \A q \in origins : o <= q
        \/ \E q \in origins : q < o /\ o <= q + p

\* C11: for a bounding box with extent >= 0 and 0 <= O < P on both axes, the
\* tiles compute_tiles returns cover the whole drawing and none is
\* superfluous: on each axis the last tile's origin plus P is >= the bbox
\* maximum, the first origin is the bbox minimum and the tiles leave no gap,
\* so every point of the box lies in the printable area of some tile; and
\* where an axis has more than one tile, the tiles before the last one end
\* short of the bbox maximum on that axis.
C11_TilesCover ==
    (pc = "returned" /\ call.fn = "compute_tiles") =>
        LET lastX == CHOOSE o \in OriginsX : \A q \in OriginsX : q <= o
            lastY == CHOOSE o \in OriginsY : \A q \in OriginsY : q <= o
        IN  /\ call.o >= 0 /\ call.o < call.pw /\ call.o < call.ph
            /\ lastX + call.pw >= call.bbox[3]
            /\ lastY + call.ph >= call.bbox[4]
            /\ call.bbox[1] \in OriginsX
            /\ call.bbox[2] \in OriginsY
            /\ \A o \in OriginsX : o >= call.bbox[1]
            /\ \A o \in OriginsY : o >= call.bbox[2]
            /\ NoGap(OriginsX, call.pw)
            /\ NoGap(OriginsY, call.ph)
            /\ \A x \in call.bbox[1]..call.bbox[3], y \in call.bbox[2]..call.bbox[4] :
                  \E n \in 1..Len(ret.tiles) :
                      /\ ret.tiles[n][3] <= x /\ x <= ret.tiles[n][3] + call.pw
                      /\ ret.tiles[n][4] <= y /\ y <= ret.tiles[n][4] + call.ph
            /\ Cardinality(OriginsX) = ret.nx
            /\ Cardinality(OriginsY) = ret.ny
            /\ \A o \in OriginsX \ {lastX} : o + call.pw < call.bbox[3]
            /\ \A o \in OriginsY \ {lastY} : o + call.ph < call.bbox[4]

\* Several columns and rows under a positive overlap; the last column ends
\* exactly on the bbox maximum, the last row beyond it.
C11_Witness ==
    /\ pc = "returned"
    /\ call.fn = "compute_tiles"
    /\ call.o > 0
    /\ ret.nx >= 3
    /\ ret.ny >= 2
    /\ call.bbox[1] + (ret.nx - 1) * StepW + call.pw = call.bbox[3]
    /\ call.bbox[2] + (ret.ny - 1) * StepH + call.ph > call.bbox[4]
====
